---- MODULE Spec2Model ----
(***************************************************************************)
(* A model of clemmys: the sequence / co-evolution logo engine (logo.py,   *)
(* glyph.py, colors.py), the secondary-structure layout engine             *)
(* (secondary_structure.py) and the link builders (links.py).              *)
(*                                                                         *)
(* Conventions                                                             *)
(*   - a Python str of single characters is a sequence of 1-character      *)
(*     strings; Python index p is TLA+ index p + 1;                        *)
(*   - a dict is its key list (insertion order) and a function on it; the  *)
(*     alignment's identifiers are 1..n in insertion order;                *)
(*   - glyph heights are exact rationals held as multiples of 1/num_keys   *)
(*     (y = 1 is num_keys); float rounding is not modelled;                *)
(*   - an optional argument is None or Some(v);                            *)
(*   - a raised exception is the status of the object or of the result.    *)
(***************************************************************************)
EXTENDS Integers, Sequences, FiniteSets, TLC

VARIABLES
  logo,        \* the SequenceLogo or CoevolutionLogo object
  patches,     \* what its make_patches returned or raised
  ticks,       \* what its get_xticks_labels returned
  ss,          \* the SecondaryStructure object
  ss_patches,  \* what its make_patches returned
  link         \* a call of a link builder and what it returned

vars == <<logo, patches, ticks, ss, ss_patches, link>>

--------------------------------------------------------------------------
(* Bounds of the model *)

\* rows of an alignment
MaxSeqs == 2
\* columns of an alignment
AlignLen == 2
\* horizontal glyph spacing
MaxSpacing == 2
\* length of a structure-label sequence
MaxLabels == 4
\* largest x-position handed to a link builder
MaxX == 3

\* characters an alignment may hold: a residue in both cases, the gap
\* marker, and a residue code the default colour scheme does not know
Chars == {"A", "a", "-", "B"}

\* configured gap characters: the default, and the gap marker itself
GapChars == {"X", "-"}

None == [none |-> TRUE, val |-> <<>>]
Some(v) == [none |-> FALSE, val |-> v]

--------------------------------------------------------------------------
(* colors.py *)

COLOR_SCHEME_AA ==
  [c \in {"A", "G", "C", "D", "E", "N", "Q", "I", "L", "M", "V", "F", "W",
          "Y", "H", "K", "R", "P", "S", "T", "X"} |->
     CASE c \in {"A", "G"} -> "#94CD8C"
       [] c = "C" -> "#B7D885"
       [] c \in {"D", "E", "N", "Q"} -> "#6FB344"
       [] c \in {"I", "L", "M", "V"} -> "#7FBBE6"
       [] c \in {"F", "W", "Y"} -> "#999FD0"
       [] c = "H" -> "#5569B1"
       [] c \in {"K", "R"} -> "#F9CC89"
       [] c = "P" -> "#E7BAB9"
       [] c \in {"S", "T"} -> "#ED5961"
       [] OTHER -> "black"]

--------------------------------------------------------------------------
(* str methods used by the logo engine *)

\* str.upper() on one character
Upper(c) == CASE c = "a" -> "A" [] c = "b" -> "B" [] c = "x" -> "X" [] OTHER -> c

\* str.replace(old, new) on one character
Replace(c, old, new) == IF c = old THEN new ELSE c

\* str(p) for an integer p
Digit(d) == CASE d = 0 -> "0" [] d = 1 -> "1" [] d = 2 -> "2" [] d = 3 -> "3"
              [] d = 4 -> "4" [] d = 5 -> "5" [] d = 6 -> "6" [] d = 7 -> "7"
              [] d = 8 -> "8" [] d = 9 -> "9"

RECURSIVE StrNat(_)
StrNat(n) == IF n < 10 THEN Digit(n) ELSE StrNat(n \div 10) \o Digit(n % 10)

Str(p) == IF p < 0 THEN "-" \o StrNat(0 - p) ELSE StrNat(p)

--------------------------------------------------------------------------
(* collections.Counter: the (symbol, count) items in first-insertion order *)

\* [a symbol seen again is not counted again]
CounterAdd_NoIncrement(counter, s) ==
  IF \E i \in 1..Len(counter) : counter[i].sym = s
  THEN counter
  ELSE Append(counter, [sym |-> s, n |-> 1])

CounterAdd(counter, s) ==
  IF \E i \in 1..Len(counter) : counter[i].sym = s
  THEN [i \in 1..Len(counter) |->
          IF counter[i].sym = s
          THEN [sym |-> s, n |-> counter[i].n + 1]
          ELSE counter[i]]
  ELSE Append(counter, [sym |-> s, n |-> 1])

RECURSIVE CounterOf(_)
CounterOf(list) ==
  IF list = <<>> THEN <<>>
  ELSE CounterAdd(CounterOf(SubSeq(list, 1, Len(list) - 1)), list[Len(list)])

\* one item placed after every item of the sorted list whose count is not smaller
RECURSIVE InsertDesc(_, _)
InsertDesc(sorted, e) ==
  IF sorted = <<>> THEN <<e>>
  ELSE IF sorted[1].n >= e.n THEN <<sorted[1]>> \o InsertDesc(Tail(sorted), e)
  ELSE <<e>> \o sorted

\* Counter.most_common(): sorted by count, descending, stable
RECURSIVE MostCommon(_)
MostCommon(counter) ==
  IF counter = <<>> THEN <<>>
  ELSE InsertDesc(MostCommon(SubSeq(counter, 1, Len(counter) - 1)),
                  counter[Len(counter)])

RECURSIVE SumCounts(_)
SumCounts(counter) ==
  IF counter = <<>> THEN 0 ELSE counter[1].n + SumCounts(Tail(counter))

--------------------------------------------------------------------------
(* glyph.py *)

\* Glyph(character, x, y0, y1, width, color): the dataclass fields the logo
\* engine sets; the others keep their defaults
Glyph(character, x, y0, y1, color) ==
  [character |-> character, x |-> x, y0 |-> y0, y1 |-> y1, color |-> color]

\* [no shape for a glyph of the smallest height either]
make_patch_NoShapeForOneCount(glyph) ==
  LET height == glyph.y1 - glyph.y0
  IN  IF height <= 1
      THEN [type |-> "None", character |-> glyph.character, x |-> glyph.x,
            y0 |-> glyph.y0, y1 |-> glyph.y1, color |-> glyph.color]
      ELSE [type |-> "PathPatch", character |-> glyph.character, x |-> glyph.x,
            y0 |-> glyph.y0, y1 |-> glyph.y1, color |-> glyph.color]

\* Glyph.make_patch: no shape for a glyph of height zero, else the outline
\* of the character fitted to its box, held by the box and the fill colour
make_patch(glyph) ==
  LET height == glyph.y1 - glyph.y0
  IN  IF height = 0
      THEN [type |-> "None", character |-> glyph.character, x |-> glyph.x,
            y0 |-> glyph.y0, y1 |-> glyph.y1, color |-> glyph.color]
      ELSE [type |-> "PathPatch", character |-> glyph.character, x |-> glyph.x,
            y0 |-> glyph.y0, y1 |-> glyph.y1, color |-> glyph.color]

--------------------------------------------------------------------------
(* logo.py: construction *)

\* list(alignment.keys())
AlignmentKeys(alignment) == [i \in 1..Len(alignment) |-> i]

\* SequenceLogo.__init__, lines 37-40: the key list is taken as given
SequenceLogoKeys(alignment, keys) ==
  IF keys.none THEN AlignmentKeys(alignment) ELSE keys.val

\* CoevolutionLogo.__init__, lines 118-121: the given keys found in the alignment
CoevolutionLogoKeys(alignment, keys) ==
  IF keys.none THEN AlignmentKeys(alignment)
  ELSE SelectSeq(keys.val, LAMBDA k : k \in DOMAIN alignment)

\* the object no constructor has run on; keys_arg is the keys argument of the
\* constructor, kept beside the fields the constructor sets
NoLogo ==
  [kind |-> "none", status |-> "none", alignment |-> <<>>, keys |-> <<>>,
   alignment_length |-> 0, num_keys |-> 0, positions |-> <<>>,
   coevolving_positions |-> <<>>, color_scheme |-> COLOR_SCHEME_AA,
   gap_character |-> "X", space_between_glyphs |-> 1, counters |-> <<>>,
   keys_arg |-> None]

\* a constructor that raised: the alignment and the keys argument it was given
Raised(kind, error, alignment, keys) ==
  [NoLogo EXCEPT !.kind = kind, !.status = error, !.alignment = alignment,
                 !.keys_arg = keys]

\* the normalized symbol of one key at one position
SequenceSymbol(self, key, p) ==
  Replace(Upper(self.alignment[key][p + 1]), "-", self.gap_character)

\* the normalized two-character symbol of one key at one pair of positions
CoevolutionSymbol(self, key, p1, p2) ==
  [k \in 1..2 |->
     Replace(Upper(self.alignment[key][(IF k = 1 THEN p1 ELSE p2) + 1]),
             "-", self.gap_character)]

\* SequenceLogo.get_counters
SequenceLogo_get_counters(self) ==
  [i \in 1..Len(self.positions) |->
     CounterOf([j \in 1..Len(self.keys) |->
                  SequenceSymbol(self, self.keys[j], self.positions[i])])]

\* CoevolutionLogo.get_counters
CoevolutionLogo_get_counters(self) ==
  [i \in 1..Len(self.coevolving_positions) |->
     CounterOf([j \in 1..Len(self.keys) |->
                  CoevolutionSymbol(self, self.keys[j],
                                    self.coevolving_positions[i][1],
                                    self.coevolving_positions[i][2])])]

\* flattening of a list of lists, in order
RECURSIVE Concat(_)
Concat(lists) == IF lists = <<>> THEN <<>> ELSE lists[1] \o Concat(Tail(lists))

\* alignment[key][p]: what the two subscripts raise
LookupError(alignment, key, p) ==
  IF key \notin DOMAIN alignment THEN "KeyError"
  ELSE IF p >= Len(alignment[key]) THEN "IndexError"
  ELSE "none"

\* alignment[key][p1] then alignment[key][p2]
PairLookupError(alignment, key, pair) ==
  IF LookupError(alignment, key, pair[1]) # "none"
  THEN LookupError(alignment, key, pair[1])
  ELSE LookupError(alignment, key, pair[2])

\* the first exception of a run of lookups, "none" when none raises
RECURSIVE FirstRaised(_)
FirstRaised(errors) ==
  IF errors = <<>> THEN "none"
  ELSE IF errors[1] # "none" THEN errors[1]
  ELSE FirstRaised(Tail(errors))

\* the exception get_counters ends with: positions outermost, keys innermost
SequenceCountersError(alignment, keys, positions) ==
  FirstRaised(Concat([i \in 1..Len(positions) |->
                        [j \in 1..Len(keys) |->
                           LookupError(alignment, keys[j], positions[i])]]))

CoevolutionCountersError(alignment, keys, pairs) ==
  FirstRaised(Concat([i \in 1..Len(pairs) |->
                        [j \in 1..Len(keys) |->
                           PairLookupError(alignment, keys[j], pairs[i])]]))

\* SequenceLogo(alignment, positions, keys, gap_character, space_between_glyphs)
SequenceLogo(alignment, positions, keys, gap_character, space_between_glyphs) ==
  LET ks == SequenceLogoKeys(alignment, keys)
  IN  IF ks = <<>> THEN Raised("sequence", "IndexError", alignment, keys)
      ELSE IF ks[1] \notin DOMAIN alignment
      THEN Raised("sequence", "KeyError", alignment, keys)
      ELSE
        LET alignment_length == Len(alignment[ks[1]])
            ps == IF positions.none
                  THEN [i \in 1..alignment_length |-> i - 1]
                  ELSE positions.val
            self == [NoLogo EXCEPT !.kind = "sequence", !.status = "ok",
                       !.alignment = alignment, !.keys = ks, !.keys_arg = keys,
                       !.alignment_length = alignment_length,
                       !.num_keys = Len(ks), !.positions = ps,
                       !.gap_character = gap_character,
                       !.space_between_glyphs = space_between_glyphs]
        IN  IF SequenceCountersError(alignment, ks, ps) # "none"
            THEN Raised("sequence", SequenceCountersError(alignment, ks, ps),
                        alignment, keys)
            ELSE [self EXCEPT !.counters = SequenceLogo_get_counters(self)]

\* CoevolutionLogo(alignment, coevolving_positions, keys, gap_character,
\*                 space_between_glyphs)
CoevolutionLogo(alignment, coevolving_positions, keys, gap_character, space_between_glyphs) ==
  LET ks == CoevolutionLogoKeys(alignment, keys)
  IN  IF ks = <<>> THEN Raised("coevolution", "IndexError", alignment, keys)
      ELSE IF ks[1] \notin DOMAIN alignment
      THEN Raised("coevolution", "KeyError", alignment, keys)
      ELSE
        LET self == [NoLogo EXCEPT !.kind = "coevolution", !.status = "ok",
                       !.alignment = alignment, !.keys = ks, !.keys_arg = keys,
                       !.alignment_length = Len(alignment[ks[1]]),
                       !.num_keys = Len(ks),
                       !.coevolving_positions = coevolving_positions,
                       !.gap_character = gap_character,
                       !.space_between_glyphs = space_between_glyphs]
        IN  IF CoevolutionCountersError(alignment, ks, coevolving_positions) # "none"
            THEN Raised("coevolution",
                        CoevolutionCountersError(alignment, ks, coevolving_positions),
                        alignment, keys)
            ELSE [self EXCEPT !.counters = CoevolutionLogo_get_counters(self)]

--------------------------------------------------------------------------
(* logo.py: make_patches and get_xticks_labels *)

\* [a lookup that falls back on the default colour of Glyph]
GlyphColor_Fallback(self, c) ==
  IF c \in DOMAIN self.color_scheme THEN self.color_scheme[c] ELSE "gray"

\* [the colour argument left out: every glyph in the default colour of Glyph]
GlyphColor_Default(self, c) ==
  IF c \in DOMAIN self.color_scheme THEN "gray" ELSE "KeyError"

\* the fill colour of the glyph of character c, self.color_scheme[c]: the
\* entry of the scheme, or the KeyError the subscript raises
GlyphColor(self, c) ==
  IF c \in DOMAIN self.color_scheme THEN self.color_scheme[c] ELSE "KeyError"

\* the top of the next glyph of a column, given the span of the one just
\* emitted: the loop body (logo.py:70-74, 149-156) assigns y0 and never
\* assigns y1, which keeps the value it was given before the loop
NextTop(y0, y1) == y1

\* SequenceLogo.make_patches, inner loop: the glyphs of one column from
\* item i of most_common() on, with the running top y1
RECURSIVE SequenceColumn(_, _, _, _, _)
SequenceColumn(self, x, mc, i, y1) ==
  IF i > Len(mc) THEN <<>>
  ELSE LET c == mc[i].sym
           y0 == y1 - mc[i].n
           glyph == Glyph(c, self.space_between_glyphs * x, y0, y1,
                          GlyphColor(self, c))
       IN  <<make_patch(glyph)>>
             \o SequenceColumn(self, x, mc, i + 1, NextTop(y0, y1))

\* CoevolutionLogo.make_patches, inner loop: two glyphs per item
RECURSIVE CoevolutionColumn(_, _, _, _, _)
CoevolutionColumn(self, x, mc, i, y1) ==
  IF i > Len(mc) THEN <<>>
  ELSE LET c == mc[i].sym
           y0 == y1 - mc[i].n
           glyph_1 == Glyph(c[1], 2 * self.space_between_glyphs * x, y0, y1,
                            GlyphColor(self, c[1]))
           glyph_2 == Glyph(c[2], 2 * self.space_between_glyphs * x + 1, y0, y1,
                            GlyphColor(self, c[2]))
       IN  <<make_patch(glyph_1), make_patch(glyph_2)>>
             \o CoevolutionColumn(self, x, mc, i + 1, NextTop(y0, y1))

NoResult == [status |-> "none", value |-> <<>>]

\* what make_patches ends with: the list, or the KeyError a lookup raised on
\* the way, which leaves no list
Returned(list) ==
  IF \E i \in 1..Len(list) : list[i].color = "KeyError"
  THEN [status |-> "KeyError", value |-> <<>>]
  ELSE [status |-> "ok", value |-> list]

\* SequenceLogo.make_patches
SequenceLogo_make_patches(self) ==
  Returned(Concat([k \in 1..Len(self.counters) |->
                     SequenceColumn(self, k - 1, MostCommon(self.counters[k]),
                                    1, self.num_keys)]))

\* CoevolutionLogo.make_patches
CoevolutionLogo_make_patches(self) ==
  Returned(Concat([k \in 1..Len(self.counters) |->
                     CoevolutionColumn(self, k - 1, MostCommon(self.counters[k]),
                                       1, self.num_keys)]))

\* np.arange(start, stop) over the integers
Arange(start, stop) ==
  IF stop > start THEN [i \in 1..(stop - start) |-> start + i - 1] ELSE <<>>

\* [one blank too few]
Blanks_OneLess(n) == [i \in 1..(n - 1) |-> " "]

\* [' '] * n
Blanks(n) == [i \in 1..n |-> " "]

\* SequenceLogo.get_xticks_labels, the loop over the positions
RECURSIVE SequenceLabels(_, _)
SequenceLabels(positions, spacing) ==
  IF positions = <<>> THEN <<>>
  ELSE <<Str(positions[1])>> \o Blanks(spacing)
         \o SequenceLabels(Tail(positions), spacing)

\* CoevolutionLogo.get_xticks_labels, the loop over the pairs
RECURSIVE CoevolutionLabels(_, _)
CoevolutionLabels(pairs, spacing) ==
  IF pairs = <<>> THEN <<>>
  ELSE <<Str(pairs[1][1]), " ", Str(pairs[1][2])>> \o Blanks(spacing)
         \o CoevolutionLabels(Tail(pairs), spacing)

NoTicks == [status |-> "none", xticks |-> <<>>, xticklabels |-> <<>>]

\* SequenceLogo.get_xticks_labels
SequenceLogo_get_xticks_labels(self) ==
  [status |-> "ok",
   xticks |-> Arange(-1, self.space_between_glyphs * Len(self.positions)),
   xticklabels |->
     <<" ">> \o SequenceLabels(self.positions, self.space_between_glyphs)]

\* CoevolutionLogo.get_xticks_labels
CoevolutionLogo_get_xticks_labels(self) ==
  [status |-> "ok",
   xticks |-> Arange(-1, self.space_between_glyphs
                           * Len(self.coevolving_positions) * 3),
   xticklabels |->
     <<" ">> \o CoevolutionLabels(self.coevolving_positions,
                                  self.space_between_glyphs)]

--------------------------------------------------------------------------
(* The inputs of the logo engine *)

\* the sequences of length 1..n over a set
SeqsUpTo(S, n) == UNION {[1..m -> S] : m \in 1..n}

\* rows: a first character followed by a run of one character (every row
\* of two columns)
Rows == {[p \in 1..AlignLen |-> IF p = 1 THEN c ELSE d] : c, d \in Chars}

\* the alignment of the axis-labelling example: one key, ten columns
ExampleAlignment == <<[p \in 1..10 |-> "a"]>>

\* alignments: 1..MaxSeqs rows of AlignLen characters each, and the example
Alignments == SeqsUpTo(Rows, MaxSeqs) \cup {ExampleAlignment}

\* key arguments: None, one key, the keys reordered, a key repeated, a
\* list with an identifier no alignment holds (last, alone, first)
KeyArgs ==
  {None, Some(<<1>>), Some(<<2, 1>>), Some(<<1, 2, 2>>),
   Some(<<1, MaxSeqs + 1>>), Some(<<MaxSeqs + 1>>), Some(<<MaxSeqs + 1, 1>>)}

\* position arguments: None, the last column, the columns reordered, and
\* the positions of the axis-labelling example
PositionArgs ==
  {None, Some(<<AlignLen - 1>>), Some(<<AlignLen - 1, 0>>), Some(<<5, 9>>)}

\* pair arguments: one pair, and two pairs one of which couples a column
\* with itself
PairArgs ==
  {<<(<<0, AlignLen - 1>>)>>, <<(<<AlignLen - 1, 0>>), (<<0, 0>>)>>,
   <<(<<5, 9>>)>>}

Spacings == 1..MaxSpacing

--------------------------------------------------------------------------
(* secondary_structure.py: segmentation *)

\* lengths are held in units of 1/72, the denominator of the coil trimming
U(n) == 72 * n

\* self.ss_dict.get(ss, 'C')
ss_dict(label) ==
  CASE label \in {"H", "G", "I"} -> "H"
    [] label \in {"B", "E"} -> "E"
    [] label \in {"T", "S"} -> "T"
    [] OTHER -> "C"

\* the label the final block is given: the last element of ss_labels as it
\* is, without the lookup in ss_dict (secondary_structure.py:97)
FinalLabel(ss_labels) == ss_labels[Len(ss_labels)]

\* get_continuous_ss_blocks, the loop from Python index i on
RECURSIVE BlocksLoop(_, _, _, _, _)
BlocksLoop(ss_labels, i, prev_ss, prev_i, ss_blocks) ==
  IF i >= Len(ss_labels)
  THEN Append(ss_blocks,
              [ss_type |-> FinalLabel(ss_labels), start |-> prev_i,
               end |-> Len(ss_labels) - 1])
  ELSE LET cur == ss_dict(ss_labels[i + 1])
           prev == IF prev_ss = "None" THEN cur ELSE prev_ss
       IN  IF cur # prev
           THEN BlocksLoop(ss_labels, i + 1, cur, i,
                           Append(ss_blocks, [ss_type |-> prev, start |-> prev_i,
                                              end |-> i - 1]))
           ELSE BlocksLoop(ss_labels, i + 1, prev, prev_i, ss_blocks)

\* [the final block is not appended]
get_continuous_ss_blocks_NoFinalBlock(ss_labels) ==
  LET blocks == BlocksLoop(ss_labels, 0, "None", 0, <<>>)
  IN  SubSeq(blocks, 1, Len(blocks) - 1)

\* SecondaryStructure.get_continuous_ss_blocks
get_continuous_ss_blocks(ss_labels) == BlocksLoop(ss_labels, 0, "None", 0, <<>>)

NoSS ==
  [status |-> "none", ss_labels |-> <<>>, ss_blocks |-> <<>>, x |-> 0,
   helix_as_wave |-> TRUE, width |-> 2]

\* SecondaryStructure(ss_labels, x, helix_as_wave, width)
SecondaryStructure(ss_labels, x, helix_as_wave, width) ==
  [status |-> "ok", ss_labels |-> ss_labels,
   ss_blocks |-> get_continuous_ss_blocks(ss_labels), x |-> x,
   helix_as_wave |-> helix_as_wave, width |-> width]

--------------------------------------------------------------------------
(* secondary_structure.py: the shapes; each carries the index of the block *)
(* it was made for (Python index), which the code does not record          *)

\* make_helix_wave: one arc per half residue
make_helix_wave(self, b, start, end) ==
  [k \in 1..(2 * (end - start + 1)) |->
     [type |-> "Arc", block |-> b,
      origin |-> U(start) + 36 * (k - 1) + 18 + U(self.x),
      length |-> 36,
      theta1 |-> 180 * (k - 1) - 1, theta2 |-> 180 * k + 1]]

\* make_helix_cylinder: ellipse, rectangle, ellipse
make_helix_cylinder(self, b, start, end) ==
  LET helix_ellipse_length == 36 * self.width
  IN  << [type |-> "Ellipse", block |-> b,
          origin |-> U(start) + helix_ellipse_length \div 2 + U(self.x),
          length |-> helix_ellipse_length],
         [type |-> "Rectangle", block |-> b,
          origin |-> U(start) + helix_ellipse_length \div 2 + U(self.x),
          length |-> U(end - start + 1) - helix_ellipse_length],
         [type |-> "Ellipse", block |-> b,
          origin |-> U(end + 1) - helix_ellipse_length \div 2 + U(self.x),
          length |-> helix_ellipse_length] >>

make_helix(self, b, start, end) ==
  IF self.helix_as_wave
  THEN make_helix_wave(self, b, start, end)
  ELSE make_helix_cylinder(self, b, start, end)

\* make_sheet: a flat arrow from the tail at origin
make_sheet(self, b, start, end) ==
  LET length == U(end - start + 1)
  IN  [type |-> "FancyArrow", block |-> b, origin |-> U(start) + U(self.x),
       length |-> length, head_length |-> length \div 4]

\* make_turn: an arc centred on the block
make_turn(self, b, start, end) ==
  LET length == U(end - start + 1)
  IN  [type |-> "Arc", block |-> b,
       origin |-> U(start) + length \div 2 + U(self.x), length |-> length,
       theta1 |-> 0, theta2 |-> 180]

\* make_coil: a connection from origin to origin + length
make_coil(self, b, start, end, prev_ss, next_ss) ==
  LET start1 == CASE prev_ss \in {"H", "T"} -> U(start) - 4
                  [] prev_ss = "E" -> U(start) - 36
                  [] OTHER -> U(start)
      length1 == CASE prev_ss \in {"H", "T"} -> U(end - start + 1) + 4
                   [] prev_ss = "E" -> U(end - start + 1) + 36
                   [] OTHER -> U(end - start + 1)
      length2 == CASE next_ss \in {"H", "T"} -> length1 + 4
                   [] next_ss = "E" -> length1 + 36
                   [] OTHER -> length1
  IN  [type |-> "ConnectionPatch", block |-> b, origin |-> start1 + U(self.x),
       length |-> length2]

\* SecondaryStructure.make_patches, the body of the loop for block i
\* (Python index): the shapes it adds
BlockPatches(self, i) ==
  LET block == self.ss_blocks[i + 1]
      n == Len(self.ss_blocks)
  IN  CASE block.ss_type = "H" -> make_helix(self, i, block.start, block.end)
        [] block.ss_type = "E" -> <<make_sheet(self, i, block.start, block.end)>>
        [] block.ss_type = "T" -> <<make_turn(self, i, block.start, block.end)>>
        [] block.ss_type = "C" ->
             <<make_coil(self, i, block.start, block.end,
                         IF i > 0 THEN self.ss_blocks[i].ss_type ELSE "None",
                         IF i + 1 < n THEN self.ss_blocks[i + 2].ss_type
                         ELSE "None")>>
        [] OTHER -> <<>>

\* SecondaryStructure.make_patches
SecondaryStructure_make_patches(self) ==
  [status |-> "ok",
   value |-> Concat([k \in 1..Len(self.ss_blocks) |-> BlockPatches(self, k - 1)])]

--------------------------------------------------------------------------
(* The inputs of the layout engine *)

\* raw labels: helix and an alias, sheet and an alias, turn and an alias,
\* coil, and a character outside the documented set
RawLabels == {"H", "G", "E", "B", "T", "S", "C", "-"}

\* the label sequence of the segmentation example
ExampleLabels == <<"H", "H", "H", "T", "T", "T", "E", "E", "E">>

LabelSeqs == SeqsUpTo(RawLabels, MaxLabels) \cup {ExampleLabels}

\* the x offset and the global width factor
Offsets == {0, 1}
Widths == {2, 4}

--------------------------------------------------------------------------
(* links.py; coordinates are held in quarters, so that the midpoints of    *)
(* midpoints of integers are exact                                         *)

Q(n) == 4 * n

Abs(n) == IF n < 0 THEN 0 - n ELSE n

NoShape == [type |-> "None"]

\* the bracket tick of the range builders: a path from (x, y) to (x, y1)
BracketTick(x, y, y1) == [type |-> "FancyArrowPatch", x |-> x, y0 |-> y, y1 |-> y1]

\* [the height is returned without its sign]
make_semicircle_Unsigned(x1, x2, y, valley) ==
  LET middle == (x1 + x2) \div 2
      height == 2 * Abs(x1 - middle)
  IN  IF height = 0
      THEN [returns |-> "extent, patch", extent |-> 0, shapes |-> <<NoShape>>]
      ELSE [returns |-> "extent, patch", extent |-> height,
            shapes |-> <<[type |-> "Arc", x |-> middle, y |-> y,
                          width |-> height, theta1 |-> 0, theta2 |-> 180]>>]

\* make_semicircle(x1, x2, y, valley): (extent, patch or None)
make_semicircle(x1, x2, y, valley) ==
  LET middle == (x1 + x2) \div 2
      height == 2 * Abs(x1 - middle)
  IN  IF height = 0
      THEN [returns |-> "extent, patch", extent |-> 0, shapes |-> <<NoShape>>]
      ELSE IF valley
      THEN [returns |-> "extent, patch", extent |-> 0 - height,
            shapes |-> <<[type |-> "Arc", x |-> middle, y |-> y,
                          width |-> 0 - height, theta1 |-> 180, theta2 |-> 360]>>]
      ELSE [returns |-> "extent, patch", extent |-> height,
            shapes |-> <<[type |-> "Arc", x |-> middle, y |-> y,
                          width |-> height, theta1 |-> 0, theta2 |-> 180]>>]

\* make_curve(x1, x2, y, valley): (extent, patch); the midpoint is floored
\* to an integer
make_curve(x1, x2, y, valley) ==
  LET middle == Q((x1 + x2) \div Q(2))
      height == 2 * Abs(x1 - middle)
  IN  IF valley
      THEN [returns |-> "extent, patch", extent |-> 0 - height,
            shapes |-> <<[type |-> "FancyArrowPatch", x |-> x1, xm |-> middle,
                          ym |-> y - height, x2 |-> x2, y |-> y]>>]
      ELSE [returns |-> "extent, patch", extent |-> height,
            shapes |-> <<[type |-> "FancyArrowPatch", x |-> x1, xm |-> middle,
                          ym |-> y + height, x2 |-> x2, y |-> y]>>]

\* make_connection(x1, y1, x2, y2): a patch, and no extent
make_connection(x1, y1, x2, y2) ==
  [returns |-> "patch", extent |-> 0,
   shapes |-> <<[type |-> "ConnectionPatch", x |-> x1, y |-> y1, x2 |-> x2,
                 y2 |-> y2]>>]

\* make_range_semicircle_bracket: (extent, [tick, semicircle or None, tick])
make_range_semicircle_bracket(x11, x12, x21, x22, y, valley) ==
  LET middle_1 == (x11 + x21) \div 2
      middle_2 == (x12 + x22) \div 2
      y1 == IF valley THEN y - Q(1) ELSE y + Q(1)
      inner == make_semicircle(middle_1, middle_2, y1, valley)
  IN  [returns |-> "extent, list", extent |-> inner.extent,
       shapes |-> <<BracketTick(middle_1, y, y1), inner.shapes[1],
                    BracketTick(middle_2, y, y1)>>]

\* make_range_curve_bracket: (extent, [tick, curve, tick])
make_range_curve_bracket(x11, x12, x21, x22, y, valley) ==
  LET middle_1 == (x11 + x21) \div 2
      middle_2 == (x12 + x22) \div 2
      y1 == IF valley THEN y - Q(1) ELSE y + Q(1)
      inner == make_curve(middle_1, middle_2, y1, valley)
  IN  [returns |-> "extent, list", extent |-> inner.extent,
       shapes |-> <<BracketTick(middle_1, y, y1), inner.shapes[1],
                    BracketTick(middle_2, y, y1)>>]

\* make_range_connection_bracket: [tick, connection, tick], and no extent
make_range_connection_bracket(x11, x12, x21, x22, y1, y2) ==
  LET middle_1 == (x11 + x21) \div 2
      middle_2 == (x12 + x22) \div 2
      y11 == y1 + Q(1)
      y21 == y2 + Q(1)
  IN  [returns |-> "list", extent |-> 0,
       shapes |-> <<BracketTick(middle_1, y1, y11),
                    make_connection(middle_1, y11, middle_2, y21).shapes[1],
                    BracketTick(middle_2, y2, y21)>>]

NoLink ==
  [fn |-> "none", args |-> <<>>, valley |-> FALSE, returns |-> "none",
   extent |-> 0, shapes |-> <<>>]

\* the record of a call: the builder, its arguments, and what it returned
Call(fn, args, valley, result) ==
  [fn |-> fn, args |-> args, valley |-> valley, returns |-> result.returns,
   extent |-> result.extent, shapes |-> result.shapes]

--------------------------------------------------------------------------
(* The inputs of the link builders *)

\* x-positions, in quarters
Xs == {Q(n) : n \in 0..MaxX}

\* baselines, in quarters
Ys == {Q(0), Q(2)}

--------------------------------------------------------------------------
(* The state machines *)

Init ==
  /\ logo = NoLogo /\ patches = NoResult /\ ticks = NoTicks
  /\ ss = NoSS /\ ss_patches = NoResult
  /\ link = NoLink

(* the logo engine: one object is constructed, then its methods are called *)

NewSequenceLogo ==
  /\ logo.kind = "none"
  /\ \E alignment \in Alignments, positions \in PositionArgs, keys \in KeyArgs,
        gap_character \in GapChars, space_between_glyphs \in Spacings :
       logo' = SequenceLogo(alignment, positions, keys, gap_character,
                            space_between_glyphs)
  /\ UNCHANGED <<patches, ticks, ss, ss_patches, link>>

NewCoevolutionLogo ==
  /\ logo.kind = "none"
  /\ \E alignment \in Alignments, coevolving_positions \in PairArgs,
        keys \in KeyArgs, gap_character \in GapChars,
        space_between_glyphs \in Spacings :
       logo' = CoevolutionLogo(alignment, coevolving_positions, keys,
                               gap_character, space_between_glyphs)
  /\ UNCHANGED <<patches, ticks, ss, ss_patches, link>>

SequenceLogoMakePatches ==
  /\ logo.kind = "sequence" /\ logo.status = "ok" /\ patches.status = "none"
  /\ patches' = SequenceLogo_make_patches(logo)
  /\ UNCHANGED <<logo, ticks, ss, ss_patches, link>>

CoevolutionLogoMakePatches ==
  /\ logo.kind = "coevolution" /\ logo.status = "ok" /\ patches.status = "none"
  /\ patches' = CoevolutionLogo_make_patches(logo)
  /\ UNCHANGED <<logo, ticks, ss, ss_patches, link>>

SequenceLogoGetXticksLabels ==
  /\ logo.kind = "sequence" /\ logo.status = "ok" /\ ticks.status = "none"
  /\ ticks' = SequenceLogo_get_xticks_labels(logo)
  /\ UNCHANGED <<logo, patches, ss, ss_patches, link>>

CoevolutionLogoGetXticksLabels ==
  /\ logo.kind = "coevolution" /\ logo.status = "ok" /\ ticks.status = "none"
  /\ ticks' = CoevolutionLogo_get_xticks_labels(logo)
  /\ UNCHANGED <<logo, patches, ss, ss_patches, link>>

NextLogo ==
  \/ NewSequenceLogo
  \/ NewCoevolutionLogo
  \/ SequenceLogoMakePatches
  \/ CoevolutionLogoMakePatches
  \/ SequenceLogoGetXticksLabels
  \/ CoevolutionLogoGetXticksLabels

SpecLogo == Init /\ [][NextLogo]_vars

(* the layout engine: one object is constructed, then make_patches is called *)

NewSecondaryStructure ==
  /\ ss.status = "none"
  /\ \E ss_labels \in LabelSeqs, x \in Offsets, helix_as_wave \in BOOLEAN,
        width \in Widths :
       ss' = SecondaryStructure(ss_labels, x, helix_as_wave, width)
  /\ UNCHANGED <<logo, patches, ticks, ss_patches, link>>

SecondaryStructureMakePatches ==
  /\ ss.status = "ok" /\ ss_patches.status = "none"
  /\ ss_patches' = SecondaryStructure_make_patches(ss)
  /\ UNCHANGED <<logo, patches, ticks, ss, link>>

NextSS == NewSecondaryStructure \/ SecondaryStructureMakePatches

SpecSS == Init /\ [][NextSS]_vars

(* the link builders: one call *)

MakeSemicircle ==
  /\ link.fn = "none"
  /\ \E x1 \in Xs, x2 \in Xs, y \in Ys, valley \in BOOLEAN :
       link' = Call("make_semicircle", <<x1, x2, y>>, valley,
                    make_semicircle(x1, x2, y, valley))
  /\ UNCHANGED <<logo, patches, ticks, ss, ss_patches>>

MakeCurve ==
  /\ link.fn = "none"
  /\ \E x1 \in Xs, x2 \in Xs, y \in Ys, valley \in BOOLEAN :
       link' = Call("make_curve", <<x1, x2, y>>, valley,
                    make_curve(x1, x2, y, valley))
  /\ UNCHANGED <<logo, patches, ticks, ss, ss_patches>>

MakeConnection ==
  /\ link.fn = "none"
  /\ \E x1 \in Xs, y1 \in Ys, x2 \in Xs, y2 \in Ys :
       link' = Call("make_connection", <<x1, y1, x2, y2>>, FALSE,
                    make_connection(x1, y1, x2, y2))
  /\ UNCHANGED <<logo, patches, ticks, ss, ss_patches>>

MakeRangeSemicircleBracket ==
  /\ link.fn = "none"
  /\ \E x11 \in Xs, x12 \in Xs, x21 \in Xs, x22 \in Xs, y \in Ys,
        valley \in BOOLEAN :
       link' = Call("make_range_semicircle_bracket", <<x11, x12, x21, x22, y>>,
                    valley,
                    make_range_semicircle_bracket(x11, x12, x21, x22, y, valley))
  /\ UNCHANGED <<logo, patches, ticks, ss, ss_patches>>

MakeRangeCurveBracket ==
  /\ link.fn = "none"
  /\ \E x11 \in Xs, x12 \in Xs, x21 \in Xs, x22 \in Xs, y \in Ys,
        valley \in BOOLEAN :
       link' = Call("make_range_curve_bracket", <<x11, x12, x21, x22, y>>,
                    valley,
                    make_range_curve_bracket(x11, x12, x21, x22, y, valley))
  /\ UNCHANGED <<logo, patches, ticks, ss, ss_patches>>

MakeRangeConnectionBracket ==
  /\ link.fn = "none"
  /\ \E x11 \in Xs, x12 \in Xs, x21 \in Xs, x22 \in Xs, y1 \in Ys, y2 \in Ys :
       link' = Call("make_range_connection_bracket",
                    <<x11, x12, x21, x22, y1, y2>>, FALSE,
                    make_range_connection_bracket(x11, x12, x21, x22, y1, y2))
  /\ UNCHANGED <<logo, patches, ticks, ss, ss_patches>>

NextLinks ==
  \/ MakeSemicircle
  \/ MakeCurve
  \/ MakeConnection
  \/ MakeRangeSemicircleBracket
  \/ MakeRangeCurveBracket
  \/ MakeRangeConnectionBracket

SpecLinks == Init /\ [][NextLinks]_vars

--------------------------------------------------------------------------
(* Properties of the logo engine, checked under SpecLogo *)

\* the patches make_patches returned that sit at x, in emission order
PatchesAt(x) == SelectSeq(patches.value, LAMBDA g : g.x = x)

\* the x-positions of the glyphs of column k (from 0)
ColumnXs(k) ==
  IF logo.kind = "sequence"
  THEN {logo.space_between_glyphs * k}
  ELSE {2 * logo.space_between_glyphs * k, 2 * logo.space_between_glyphs * k + 1}

\* the spans of a column tile [0, 1] from the top, largest first
Tiles(col) ==
  /\ col # <<>>
  /\ col[1].y1 = logo.num_keys
  /\ \A i \in 2..Len(col) : col[i].y1 = col[i - 1].y0
  /\ col[Len(col)].y0 = 0
  /\ \A i \in 2..Len(col) :
       col[i].y1 - col[i].y0 <= col[i - 1].y1 - col[i - 1].y0

\* C1: the spans [y0, y1] of the glyphs make_patches emits for a column, in
\* emission order, tile [0, 1] exactly: the first has y1 = 1, each later y1 is
\* the previous y0, the last y0 is 0, and the spans come in descending-count
\* order.
C1_ColumnSpansTileUnitInterval ==
  patches.status = "ok" =>
    \A k \in 0..(Len(logo.counters) - 1) :
      \A x \in ColumnXs(k) : Tiles(PatchesAt(x))

\* C5: every counter of the logo (one per position or per pair) has counts
\* that sum to num_keys, the number of keys used, the gap counting as a symbol.
C5_CountsSumToNumKeys ==
  logo.status = "ok" =>
    /\ logo.num_keys = Len(logo.keys)
    /\ Len(logo.counters) = IF logo.kind = "sequence"
                            THEN Len(logo.positions)
                            ELSE Len(logo.coevolving_positions)
    /\ \A i \in 1..Len(logo.counters) :
         SumCounts(logo.counters[i]) = logo.num_keys

\* a sequence logo over three keys with a column of two symbols, one the gap
C5_Witness ==
  /\ logo.status = "ok" /\ logo.kind = "sequence" /\ logo.num_keys = 3
  /\ \E i \in 1..Len(logo.counters) :
       /\ Len(logo.counters[i]) = 2
       /\ \E j \in 1..2 : logo.counters[i][j].sym = logo.gap_character

Present(k) == k \in DOMAIN logo.alignment

\* C6: with an explicit key list of which at least one key is in the
\* alignment, construction and counter building succeed (no KeyError), and
\* the keys used are the given keys that the alignment holds.
C6_ExplicitKeysIntersected ==
  (/\ logo.kind # "none"
   /\ ~logo.keys_arg.none
   /\ \E i \in 1..Len(logo.keys_arg.val) : Present(logo.keys_arg.val[i]))
  => /\ logo.status # "KeyError"
     /\ logo.status = "ok" => logo.keys = SelectSeq(logo.keys_arg.val, Present)

\* the characters counted at the selected positions, read off the alignment
CountedChars ==
  IF logo.kind = "sequence"
  THEN {Replace(Upper(logo.alignment[logo.keys[j]][logo.positions[i] + 1]),
                "-", logo.gap_character) :
          i \in 1..Len(logo.positions), j \in 1..Len(logo.keys)}
  ELSE {Replace(Upper(logo.alignment[logo.keys[j]]
                        [logo.coevolving_positions[i][h] + 1]),
                "-", logo.gap_character) :
          i \in 1..Len(logo.coevolving_positions), j \in 1..Len(logo.keys),
          h \in 1..2}

C9_TickLabels ==
  ticks.status = "ok" =>
    LET L == ticks.xticklabels
        s == logo.space_between_glyphs
    IN  /\ L[1] = " "
        /\ logo.kind = "sequence" =>
             /\ Len(L) = 1 + Len(logo.positions) * (1 + s)
             /\ \A i \in 1..Len(logo.positions) :
                  LET base == 1 + (i - 1) * (1 + s)
                  IN  /\ L[base + 1] = Str(logo.positions[i])
                      /\ \A j \in 1..s : L[base + 1 + j] = " "
             /\ (logo.positions = <<5, 9>> /\ s = 1)
                  => L = <<" ", "5", " ", "9", " ">>
        /\ logo.kind = "coevolution" =>
             /\ Len(L) = 1 + Len(logo.coevolving_positions) * (3 + s)
             /\ \A i \in 1..Len(logo.coevolving_positions) :
                  LET base == 1 + (i - 1) * (3 + s)
                  IN  /\ L[base + 1] = Str(logo.coevolving_positions[i][1])
                      /\ L[base + 2] = " "
                      /\ L[base + 3] = Str(logo.coevolving_positions[i][2])
                      /\ \A j \in 1..s : L[base + 3 + j] = " "
             /\ (logo.coevolving_positions = <<(<<5, 9>>)>> /\ s = 1)
                  => L = <<" ", "5", " ", "9", " ">>

\* the axis-labelling example: positions [5, 9] with spacing 1
C9_Witness ==
  /\ ticks.status = "ok" /\ logo.kind = "sequence"
  /\ logo.positions = <<5, 9>> /\ logo.space_between_glyphs = 1

\* the distinct symbols of column i (from 1), read off the alignment
DistinctSymbols(i) ==
  IF logo.kind = "sequence"
  THEN {SequenceSymbol(logo, logo.keys[j], logo.positions[i]) :
          j \in 1..Len(logo.keys)}
  ELSE {CoevolutionSymbol(logo, logo.keys[j], logo.coevolving_positions[i][1],
                          logo.coevolving_positions[i][2]) :
          j \in 1..Len(logo.keys)}

\* the number of distinct symbols over the columns 1..n
RECURSIVE TotalDistinct(_)
TotalDistinct(n) ==
  IF n = 0 THEN 0 ELSE TotalDistinct(n - 1) + Cardinality(DistinctSymbols(n))

\* C12: the list make_patches returns holds glyph shapes only: a glyph gets no
\* shape exactly when y1 - y0 = 0, every glyph of the logo has y0 < y1, and the
\* number of entries is the number of distinct symbols summed over the columns
\* (twice that for a co-evolution logo).
C12_NoMissingShapeInPatches ==
  patches.status = "ok" =>
    /\ \A i \in 1..Len(patches.value) :
         LET g == patches.value[i]
         IN  /\ (g.type = "None") <=> (g.y1 - g.y0 = 0)
             /\ g.y0 < g.y1
             /\ g.type = "PathPatch"
    /\ Len(patches.value) =
         (IF logo.kind = "sequence" THEN 1 ELSE 2)
           * TotalDistinct(Len(logo.counters))

\* a co-evolution logo with a pair of columns that holds two distinct symbols
C12_Witness ==
  /\ patches.status = "ok" /\ logo.kind = "coevolution"
  /\ \E i \in 1..Len(logo.counters) : Cardinality(DistinctSymbols(i)) = 2
  /\ Len(patches.value) >= 4

\* the index (from 1) in the label list of the label that carries the
\* (first) position number of column i (from 0)
LabelIndex(i) ==
  IF logo.kind = "sequence"
  THEN 2 + i * (1 + logo.space_between_glyphs)
  ELSE 2 + i * (3 + logo.space_between_glyphs)

\* the x-position at which make_patches places the (first) glyph of column i
GlyphX(i) ==
  IF logo.kind = "sequence"
  THEN logo.space_between_glyphs * i
  ELSE 2 * logo.space_between_glyphs * i

\* the number of columns of the logo
NumColumns ==
  IF logo.kind = "sequence" THEN Len(logo.positions)
  ELSE Len(logo.coevolving_positions)

\* C15: get_xticks_labels returns as many tick positions as tick labels, and
\* the label that carries column i's position number is paired with the tick
\* at the x-position of column i's glyph (spacing * i, or 2 * spacing * i for
\* the first glyph of a co-evolution pair).
C15_TicksAlignWithLabels ==
  (ticks.status = "ok" /\ NumColumns > 0) =>
    /\ Len(ticks.xticks) = Len(ticks.xticklabels)
    /\ \A i \in 0..(NumColumns - 1) :
         /\ LabelIndex(i) <= Len(ticks.xticks)
         /\ ticks.xticks[LabelIndex(i)] = GlyphX(i)

--------------------------------------------------------------------------
(* Properties of the layout engine, checked under SpecSS *)

\* the structural class of a block: the normalized class of its first label
ClassOf(block) == ss_dict(ss.ss_labels[block.start + 1])

\* C2: the blocks are exactly the maximal runs of the normalized labels, each
\* (class, start, end inclusive) with the class in {H, E, T, C} that all its
\* labels normalize to, the final block included; "HHHTTTEEE" gives
\* (H,0,2), (T,3,5), (E,6,8).
C2_BlocksAreNormalizedMaximalRuns ==
  ss.status = "ok" =>
    LET B == ss.ss_blocks
        n == Len(ss.ss_labels)
    IN  /\ B # <<>>
        /\ B[1].start = 0
        /\ B[Len(B)].end = n - 1
        /\ \A k \in 1..Len(B) :
             /\ B[k].start <= B[k].end
             /\ B[k].ss_type \in {"H", "E", "T", "C"}
             /\ \A i \in B[k].start..B[k].end :
                  ss_dict(ss.ss_labels[i + 1]) = B[k].ss_type
        /\ \A k \in 2..Len(B) :
             /\ B[k].start = B[k - 1].end + 1
             /\ ClassOf(B[k]) # ClassOf(B[k - 1])
        /\ ss.ss_labels = ExampleLabels =>
             B = << [ss_type |-> "H", start |-> 0, end |-> 2],
                    [ss_type |-> "T", start |-> 3, end |-> 5],
                    [ss_type |-> "E", start |-> 6, end |-> 8] >>

\* the number of shapes make_patches returned for block k (from 0)
ShapesOf(k) ==
  Cardinality({i \in 1..Len(ss_patches.value) : ss_patches.value[i].block = k})

\* C3: make_patches returns at least one shape for every block, exactly one
\* for a sheet, turn or coil block, in left-to-right block order.
C3_EveryBlockHasAShape ==
  ss_patches.status = "ok" =>
    /\ \A k \in 1..Len(ss.ss_blocks) :
         /\ ShapesOf(k - 1) >= 1
         /\ ClassOf(ss.ss_blocks[k]) \in {"E", "T", "C"} => ShapesOf(k - 1) = 1
    /\ \A i \in 1..(Len(ss_patches.value) - 1) :
         ss_patches.value[i].block <= ss_patches.value[i + 1].block

\* the trimming next to a block of a class, in units of 1/72
Trim(class) ==
  CASE class = "E" -> 36
    [] class \in {"H", "T"} -> 4
    [] OTHER -> 0

\* C4: each end of a coil connector is moved outwards by the trimming of the
\* structural class of the block next to that end: 0.5 for a sheet, 4/72 for
\* a helix or a turn, nothing for no block.
C4_CoilTrimmedByNeighbourClass ==
  ss_patches.status = "ok" =>
    \A i \in 1..Len(ss_patches.value) :
      LET shape == ss_patches.value[i]
          B == ss.ss_blocks
          k == shape.block + 1
          left == IF k > 1 THEN Trim(ClassOf(B[k - 1])) ELSE 0
          right == IF k < Len(B) THEN Trim(ClassOf(B[k + 1])) ELSE 0
      IN  shape.type = "ConnectionPatch" =>
            /\ shape.origin = U(B[k].start) + U(ss.x) - left
            /\ shape.origin + shape.length = U(B[k].end + 1) + U(ss.x) + right

\* the labels of the sequence all normalize to one class
OneClass ==
  \A i, j \in 1..Len(ss.ss_labels) :
    ss_dict(ss.ss_labels[i]) = ss_dict(ss.ss_labels[j])

ShapesOfBlock(k) == SelectSeq(ss_patches.value, LAMBDA shape : shape.block = k)

\* the horizontal span of a cylinder shape: an ellipse is centred on its
\* origin, a rectangle starts at its origin
Left(shape) ==
  IF shape.type = "Ellipse" THEN shape.origin - shape.length \div 2
  ELSE shape.origin

Right(shape) ==
  IF shape.type = "Ellipse" THEN shape.origin + shape.length \div 2
  ELSE shape.origin + shape.length

\* C14: with helix_as_wave false, a helix block (start, end) is drawn as three
\* shapes, start-cap ellipse, body rectangle, end-cap ellipse, the rectangle of
\* non-negative length, which together cover exactly [start + x, end + 1 + x],
\* for every block length and every positive width.
C14_CylinderSpansTheBlock ==
  (ss_patches.status = "ok" /\ ~ss.helix_as_wave) =>
    \A k \in 1..Len(ss.ss_blocks) :
      ss.ss_blocks[k].ss_type = "H" =>
        LET S == ShapesOfBlock(k - 1)
            lo == U(ss.ss_blocks[k].start) + U(ss.x)
            hi == U(ss.ss_blocks[k].end + 1) + U(ss.x)
        IN  /\ Len(S) = 3
            /\ S[1].type = "Ellipse" /\ S[2].type = "Rectangle"
            /\ S[3].type = "Ellipse"
            /\ S[2].length >= 0
            /\ Left(S[1]) = lo /\ Right(S[3]) = hi
            /\ \A i \in 1..3 : Left(S[i]) >= lo /\ Right(S[i]) <= hi
            /\ Left(S[2]) <= Right(S[1]) /\ Left(S[3]) <= Right(S[2])

--------------------------------------------------------------------------
(* Properties of the link builders, checked under SpecLinks *)

HasExtent == link.returns \in {"extent, patch", "extent, list"}

Signed == IF link.valley THEN link.extent <= 0 ELSE link.extent >= 0

\* C10: every link builder returns a pair (extent, shape or list of shapes)
\* whose extent is at most 0 when valley is true and at least 0 when it is
\* false.
C10_EveryBuilderReturnsSignedExtent ==
  link.fn # "none" => HasExtent /\ Signed

\* C10, amended: the semicircle and curve builders and their range brackets
\* return such a pair; make_connection and make_range_connection_bracket
\* take no valley flag and return the shape, or the list of shapes, alone.
C10_ExtentBuildersReturnSignedExtent ==
  /\ link.fn \in {"make_semicircle", "make_curve"} =>
       link.returns = "extent, patch" /\ Signed
  /\ link.fn \in {"make_range_semicircle_bracket", "make_range_curve_bracket"} =>
       link.returns = "extent, list" /\ Signed
  /\ link.fn = "make_connection" => link.returns = "patch"
  /\ link.fn = "make_range_connection_bracket" => link.returns = "list"

\* a valley bracket whose semicircle has a negative extent
C10_Witness ==
  /\ link.fn = "make_range_semicircle_bracket" /\ link.valley
  /\ link.extent < 0

\* the two endpoints of a semicircle or curve call coincide
CoincidentEndpoints == link.args[1] = link.args[2]

\* the two tick midpoints of a range bracket call coincide
CoincidentMidpoints ==
  link.args[1] + link.args[3] = link.args[2] + link.args[4]

\* C11: make_semicircle and make_curve called with x1 = x2 (either valley
\* setting) return extent 0 and no shape, and a range bracket whose two tick
\* midpoints coincide returns a list in which every entry is a shape.
C11_CoincidentEndpointsGiveNoShape ==
  /\ (link.fn \in {"make_semicircle", "make_curve"} /\ CoincidentEndpoints) =>
       /\ link.extent = 0
       /\ link.shapes = <<NoShape>>
  /\ (/\ link.fn \in {"make_range_semicircle_bracket", "make_range_curve_bracket",
                      "make_range_connection_bracket"}
      /\ CoincidentMidpoints) =>
       /\ Len(link.shapes) = 3
       /\ \A i \in 1..Len(link.shapes) : link.shapes[i] # NoShape

\* C16: the extent make_curve returns depends only on the unordered pair of
\* endpoints: make_curve(x1, x2, ...) and make_curve(x2, x1, ...) return the
\* same extent, for either valley setting, and its magnitude is |x1 - x2|, the
\* magnitude make_semicircle returns for the same endpoints.
C16_CurveExtentIsSymmetric ==
  link.fn = "make_curve" =>
    LET x1 == link.args[1]
        x2 == link.args[2]
        y == link.args[3]
    IN  /\ link.extent = make_curve(x2, x1, y, link.valley).extent
        /\ Abs(link.extent) = Abs(x1 - x2)
        /\ Abs(link.extent) = Abs(make_semicircle(x1, x2, y, link.valley).extent)

====
